---- MODULE Spec2Model ----
(***************************************************************************)
(* Model of outbreak.py: an individual-based simulation of the outbreak of *)
(* an infectious disease.                                                  *)
(*                                                                         *)
(* Time steps are integers (days).  Real-valued quantities are kept        *)
(* exactly as integers: the random draws are given in tenths (a period of  *)
(* 0.5 day is 5, an incubation factor of 1.2 is 12, R0 = 1.7 is 17), and   *)
(* end times and infect_delta in hundredths of a day, so that the product  *)
(* incubation_factor * latent_period is exact.                             *)
(***************************************************************************)
EXTENDS Integers, Sequences, FiniteSets

VARIABLES
    pc,             \* position in simulate / the caller
    R0,             \* argument R0 of simulate, in tenths
    n_iter,         \* params['n_iter']
    output_freq,    \* params['output_freq']
    will_recover_p, \* params['will_recover']['p'], in tenths
    infect_delta,   \* params['infect_delta'], in hundredths of a day
    time,           \* local `time` of simulate
    infected,       \* local list `infected` of simulate (the population)
    idx,            \* position of the iterator of `for i in infected`
    counters,       \* the count matrix, a sequence of rows
    i_counter,      \* local `i_counter` of simulate (0-based row)
    summary,        \* what print_summary reports
    updates         \* history: the update calls of the current pass, <<agent, time>>

vars == <<pc, R0, n_iter, output_freq, will_recover_p, infect_delta, time,
          infected, idx, counters, i_counter, summary, updates>>

-----------------------------------------------------------------------------
(* Bounds of the model *)

MaxPop == 3        \* largest population explored
MaxIter == 5       \* largest horizon n_iter
MaxFreq == 2       \* largest output_freq
MaxCount == 1      \* largest entry of a count vector given to the reductions

(* Input domains *)

R0Values == {-10, 0, 17, 50, 100}    \* -1.0, 0, 1.7 (line 245), 5.0, 10.0
RecoverProbabilities == {0, 3, 10}   \* 0.0, 0.3 (line 46), 1.0
LatentPeriods == {5, 20}             \* draws of gamma, > 0
IncubFactors == {8, 12}              \* draws of uniform on [0.8, 1.2]
InfectiousPeriods == {1, 10}         \* draws of gamma, > 0
RecoverPeriods == {5}                \* draws of gamma, > 0
DyingPeriods == {5}                  \* draws of gamma, > 0

-----------------------------------------------------------------------------
(* Constants of the program *)

n_states == 8
States == 0 .. (n_states - 1)
NaN == -1                \* np.nan: every comparison with it is false
None == 0                \* agents are named by their position 1.. in `infected`
mean_inf_period == 50    \* 1. * 5. (line 45, 54), in tenths

Ticks(t) == t * 100      \* days -> hundredths of a day
Tenths(p) == p * 10      \* tenths -> hundredths

\* ss.bernoulli.rvs(p): the draws possible for probability p (tenths)
Bernoulli(p) == IF p <= 0 THEN {FALSE} ELSE IF p >= 10 THEN {TRUE} ELSE {TRUE, FALSE}

\* the draws of one Infectee.__init__, in the order the code makes them
Draws(p) ==
    { [latent_period |-> l, incub_factor |-> f, infectious_period |-> i,
       will_recover |-> w, last_period |-> e] :
         l \in LatentPeriods, f \in IncubFactors, i \in InfectiousPeriods,
         w \in Bernoulli(p), e \in RecoverPeriods \cup DyingPeriods }

DrawsOf(p) ==
    { d \in Draws(p) : d.last_period \in
          (IF d.will_recover THEN RecoverPeriods ELSE DyingPeriods) }

\* Python round(): the nearest integer to num/den (den > 0), ties to even
Round(num, den) ==
    LET q == num \div den
        r == num % den
    IN  IF 2 * r < den THEN q
        ELSE IF 2 * r > den THEN q + 1
        ELSE IF q % 2 = 0 THEN q ELSE q + 1

\* round(n_iter / output_freq + 0.49999)
NOutput(n, f) == Round(n * 100000 + 49999 * f, 100000 * f)

ZeroRow == [s \in States |-> 0]

ZeroMatrix(n) == [r \in 1 .. n |-> ZeroRow]

-----------------------------------------------------------------------------
(* class Infectee *)

\* variants of StatusTrajectory with a slip in the code
StatusTrajectory_reversed_tail(d) ==
    <<0>> \o (IF d.incub_factor > 10 THEN <<1>> ELSE <<2>>) \o <<3>>
          \o (IF d.will_recover THEN <<6, 4>> ELSE <<7, 5>>)

StatusTrajectory_both_branches(d) ==
    <<0>> \o (IF d.incub_factor > 10 THEN <<1>> ELSE <<1, 2>>) \o <<3>>
          \o (IF d.will_recover THEN <<4, 6>> ELSE <<5, 7>>)

StatusTrajectory_inverted_recovery(d) ==
    <<0>> \o (IF d.incub_factor > 10 THEN <<1>> ELSE <<2>>) \o <<3>>
          \o (IF d.will_recover THEN <<5, 7>> ELSE <<4, 6>>)

StatusTrajectory(d) ==
    <<0>> \o (IF d.incub_factor > 10 THEN <<1>> ELSE <<2>>) \o <<3>>
          \o (IF d.will_recover THEN <<4, 6>> ELSE <<5, 7>>)

\* end_times before the shift by infection_time
RelEndTimes(d) ==
    LET traj == StatusTrajectory(d)
        latent_period == Tenths(d.latent_period)
        scaled == d.incub_factor * d.latent_period
        two_periods == latent_period + Tenths(d.infectious_period)
        time_end == two_periods + Tenths(d.last_period)
    IN  [s \in States |->
           IF s = traj[Len(traj) - 1] THEN time_end
           ELSE IF s = 3 THEN two_periods
           ELSE IF d.incub_factor > 10
                THEN (IF s = 0 THEN latent_period
                      ELSE IF s = 1 THEN scaled ELSE NaN)
                ELSE (IF s = 0 THEN scaled
                      ELSE IF s = 2 THEN latent_period ELSE NaN)]

\* variant of Infectee without `self.end_times += infection_time`
Infectee_unshifted(infector, infection_time, d) ==
    LET traj == StatusTrajectory(d)
        rel == RelEndTimes(d)
    IN  [infector |-> infector,
         infected |-> <<>>,
         infection_time |-> infection_time,
         last_infection |-> infection_time,
         status_trajectory |-> traj,
         end_times |-> rel,
         status_iter |-> 1,
         istatus |-> traj[1]]

\* Infectee.__init__
Infectee(infector, infection_time, d) ==
    LET traj == StatusTrajectory(d)
        rel == RelEndTimes(d)
    IN  [infector |-> infector,
         infected |-> <<>>,
         infection_time |-> infection_time,
         last_infection |-> infection_time,
         status_trajectory |-> traj,
         end_times |-> [s \in States |->
                          IF rel[s] = NaN THEN NaN
                          ELSE rel[s] + Ticks(infection_time)],
         status_iter |-> 1,    \* entries of the trajectory consumed
         istatus |-> traj[1]]

\* variant of infect that does not record the infectee
infect_forgets(self, other) == self

\* Infectee.infect
infect(self, other) == [self EXCEPT !.infected = Append(@, other)]

\* variant of can_infect that takes every state from latent-infectious on
can_infect_from_2(self) == self.istatus >= 2

\* variant of can_infect that ignores the state
can_infect_always(self) == TRUE

\* Infectee.can_infect
can_infect(self) == (self.istatus = 2) \/ (self.istatus = 3)

\* Infectee._time_next
time_next(self) == self.end_times[self.istatus]

\* variant of TimeReached with > for >=
TimeReached_strict(self, t) ==
    time_next(self) # NaN /\ Ticks(t) > time_next(self)

\* variant of TimeReached for end_times that start as numbers, not as nan
TimeReached_ignores_nan(self, t) == Ticks(t) >= time_next(self)

\* time >= self._time_next
TimeReached(self, t) == time_next(self) # NaN /\ Ticks(t) >= time_next(self)

\* variant of Advance with `while` for `if`: up to two advances in one call
Advance_repeated(self, t) ==
    LET step(a) ==
          IF a.end_times[a.istatus] # NaN /\ Ticks(t) >= a.end_times[a.istatus]
             /\ a.status_iter < Len(a.status_trajectory)
          THEN [a EXCEPT !.status_iter = @ + 1,
                         !.istatus = a.status_trajectory[a.status_iter + 1]]
          ELSE a
    IN  step(step(self))

\* first statement of Infectee.update: the conditional advance
Advance(self, t) ==
    IF TimeReached(self, t) /\ self.status_iter < Len(self.status_trajectory)
    THEN [self EXCEPT !.status_iter = @ + 1,
                      !.istatus = self.status_trajectory[self.status_iter + 1]]
    ELSE self

\* next(self._status_iter) on an exhausted iterator
StopIteration(self, t) ==
    TimeReached(self, t) /\ self.status_iter >= Len(self.status_trajectory)

\* variant of Transmits with >= for >
Transmits_at_least(self, t, delta) ==
    can_infect(self) /\ Ticks(t - self.last_infection) >= delta

\* second statement of Infectee.update: whether a new infectee is created
Transmits(self, t, delta) ==
    can_infect(self) /\ Ticks(t - self.last_infection) > delta

\* Infectee.update: the agent after the call, given the name of the new
\* infectee (used only when one is created)
update(self, t, delta, new_i) ==
    LET a == Advance(self, t)
    IN  IF Transmits(a, t, delta)
        THEN [infect(a, new_i) EXCEPT !.last_infection = t]
        ELSE a

-----------------------------------------------------------------------------
(* the reductions *)

RECURSIVE SumOver(_, _)
SumOver(row, S) ==
    IF S = {} THEN 0
    ELSE LET s == CHOOSE x \in S : TRUE
         IN  row[s] + SumOver(row, S \ {s})

n_cases(row) == SumOver(row, States)

\* variant of n_observed that leaves out symptoms-non-infectious
n_observed_without_1(row) == SumOver(row, {3, 4, 5, 6, 7})

n_observed(row) == SumOver(row, {1, 3, 4, 5, 6, 7})

n_latent(row) == SumOver(row, {0, 2})

-----------------------------------------------------------------------------
(* simulate *)

\* mean_inf_period / R0, for R0 # 0, both in tenths: the largest number of
\* hundredths of a day not above the quotient
InfectDelta(r) ==
    IF r > 0 THEN (mean_inf_period * 100) \div r
    ELSE 0 - ((mean_inf_period * 100 + (0 - r) - 1) \div (0 - r))

Init ==
    /\ pc = "start"
    /\ R0 \in R0Values
    /\ n_iter \in 0 .. MaxIter
    /\ output_freq \in 1 .. MaxFreq
    /\ will_recover_p \in RecoverProbabilities
    /\ infect_delta = 0
    /\ time = 0
    /\ infected = <<>>
    /\ idx = 0
    /\ counters = <<>>
    /\ i_counter = 0
    /\ summary = <<>>
    /\ updates = <<>>

\* lines 53-55 with R0 = 0: the division raises ZeroDivisionError
StartError ==
    /\ pc = "start"
    /\ R0 = 0
    /\ pc' = "error"
    /\ UNCHANGED <<R0, n_iter, output_freq, will_recover_p, infect_delta, time,
                   infected, idx, counters, i_counter, summary, updates>>

\* lines 53-63
Start ==
    /\ pc = "start"
    /\ R0 # 0
    /\ infect_delta' = InfectDelta(R0)
    /\ time' = 0
    /\ \E d \in DrawsOf(will_recover_p) : infected' = <<Infectee(None, 0, d)>>
    /\ counters' = ZeroMatrix(NOutput(n_iter, output_freq))
    /\ i_counter' = 0
    /\ pc' = "while"
    /\ UNCHANGED <<R0, n_iter, output_freq, will_recover_p, idx, summary, updates>>

\* variant of WhileStep without `time += 1`
WhileStep_no_increment ==
    /\ pc = "while"
    /\ time < n_iter
    /\ time' = time
    /\ idx' = 1
    /\ updates' = <<>>
    /\ pc' = "for"
    /\ UNCHANGED <<R0, n_iter, output_freq, will_recover_p, infect_delta,
                   infected, counters, i_counter, summary>>

\* variant of WhileStep whose loop test is time <= n_iter
WhileStep_inclusive ==
    /\ pc = "while"
    /\ time <= n_iter
    /\ time' = time + 1
    /\ idx' = 1
    /\ updates' = <<>>
    /\ pc' = "for"
    /\ UNCHANGED <<R0, n_iter, output_freq, will_recover_p, infect_delta,
                   infected, counters, i_counter, summary>>

\* lines 65-68: the loop test, time += 1 and the start of the pass
WhileStep ==
    /\ pc = "while"
    /\ time < n_iter
    /\ time' = time + 1
    /\ idx' = 1
    /\ updates' = <<>>
    /\ pc' = "for"
    /\ UNCHANGED <<R0, n_iter, output_freq, will_recover_p, infect_delta,
                   infected, counters, i_counter, summary>>

\* lines 73-74
Count(c, t, row, status) ==
    IF t % output_freq = 0
    THEN [c EXCEPT ![row + 1][status] = @ + 1]
    ELSE c

\* lines 68-74: one iteration of the pass over the growing list
Visit ==
    /\ pc = "for"
    /\ idx <= Len(infected)
    /\ LET self == infected[idx]
           new_i == Len(infected) + 1
           after == update(self, time, infect_delta, new_i)
       IN  IF StopIteration(self, time)
              \/ (time % output_freq = 0 /\ i_counter >= Len(counters))
           THEN /\ pc' = "error"
                /\ UNCHANGED <<infected, idx, counters, updates>>
           ELSE /\ IF Transmits(Advance(self, time), time, infect_delta)
                   THEN /\ Len(infected) < MaxPop
                        /\ \E d \in DrawsOf(will_recover_p) :
                              infected' = Append([infected EXCEPT ![idx] = after],
                                                 Infectee(idx, time, d))
                   ELSE infected' = [infected EXCEPT ![idx] = after]
                /\ counters' = Count(counters, time, i_counter, after.istatus)
                /\ idx' = idx + 1
                /\ updates' = Append(updates, <<idx, time>>)
                /\ pc' = "for"
    /\ UNCHANGED <<R0, n_iter, output_freq, will_recover_p, infect_delta, time,
                   i_counter, summary>>

\* variant of EndFor without `i_counter += 1`
EndFor_no_increment ==
    /\ pc = "for"
    /\ idx > Len(infected)
    /\ i_counter' = i_counter
    /\ pc' = "while"
    /\ UNCHANGED <<R0, n_iter, output_freq, will_recover_p, infect_delta, time,
                   infected, idx, counters, summary, updates>>

\* variant of EndFor for a pass over a snapshot of the list taken at its start
EndFor_snapshot ==
    /\ pc = "for"
    /\ idx > Cardinality({a \in 1 .. Len(infected) :
                             infected[a].infection_time < time})
    /\ i_counter' = IF time % output_freq = 0 THEN i_counter + 1 ELSE i_counter
    /\ pc' = "while"
    /\ UNCHANGED <<R0, n_iter, output_freq, will_recover_p, infect_delta, time,
                   infected, idx, counters, summary, updates>>

\* lines 76-77: the end of the pass
EndFor ==
    /\ pc = "for"
    /\ idx > Len(infected)
    /\ i_counter' = IF time % output_freq = 0 THEN i_counter + 1 ELSE i_counter
    /\ pc' = "while"
    /\ UNCHANGED <<R0, n_iter, output_freq, will_recover_p, infect_delta, time,
                   infected, idx, counters, summary, updates>>

\* line 79
Return ==
    /\ pc = "while"
    /\ ~(time < n_iter)
    /\ pc' = "done"
    /\ UNCHANGED <<R0, n_iter, output_freq, will_recover_p, infect_delta, time,
                   infected, idx, counters, i_counter, summary, updates>>

\* lines 220-225: counters[-1] of an empty matrix raises IndexError
print_summary ==
    /\ pc = "done"
    /\ IF Len(counters) = 0
       THEN /\ pc' = "error"
            /\ UNCHANGED summary
       ELSE LET last == counters[Len(counters)]
            IN  /\ summary' = <<[row |-> last,
                                 reported |-> n_observed(last),
                                 unreported |-> n_latent(last),
                                 total |-> n_cases(last)]>>
                /\ pc' = "printed"
    /\ UNCHANGED <<R0, n_iter, output_freq, will_recover_p, infect_delta, time,
                   infected, idx, counters, i_counter, updates>>

Next ==
    \/ StartError
    \/ Start
    \/ WhileStep
    \/ Visit
    \/ EndFor
    \/ Return
    \/ print_summary

Spec == Init /\ [][Next]_vars

-----------------------------------------------------------------------------
(* simulate with R0 > 0, run to completion: the single thread of the program
   always takes its next step *)

\* the loop control of lines 65-71 does not read output_freq
InitFair == Init /\ R0 > 0 /\ output_freq = 1

NextFair ==
    \/ Start
    \/ WhileStep
    \/ Visit
    \/ EndFor
    \/ Return

FairSpec == InitFair /\ [][NextFair]_vars /\ WF_vars(NextFair)

\* the exploration stops where an update would create agent MaxPop + 1
PopulationCapped ==
    /\ pc = "for"
    /\ idx <= Len(infected)
    /\ Len(infected) >= MaxPop
    /\ Transmits(Advance(infected[idx], time), time, infect_delta)

-----------------------------------------------------------------------------
(* The reductions on arbitrary count vectors *)

CountVectors == [States -> 0 .. MaxCount]

InitReduce ==
    /\ pc = "done"
    /\ R0 = 17
    /\ n_iter = 1
    /\ output_freq = 1
    /\ will_recover_p = 3
    /\ infect_delta = InfectDelta(17)
    /\ time = 1
    /\ infected = <<>>
    /\ idx = 1
    /\ counters \in {<<v>> : v \in CountVectors}
    /\ i_counter = 1
    /\ summary = <<>>
    /\ updates = <<>>

NextReduce == print_summary

SpecReduce == InitReduce /\ [][NextReduce]_vars

-----------------------------------------------------------------------------
(* Properties *)

Agents == 1 .. Len(infected)

Occurrences(seq, x) == Cardinality({k \in 1 .. Len(seq) : seq[k] = x})

RowSum(row) ==
    row[0] + row[1] + row[2] + row[3] + row[4] + row[5] + row[6] + row[7]

\* C1: for every n_iter >= 1 and output_freq >= 1 the last row of the count
\* matrix returned by simulate sums to the size of the population at the end
\* of the run.
C1_FinalTallySumsToPopulation ==
    (pc = "done" /\ n_iter >= 1) =>
        /\ Len(counters) >= 1
        /\ RowSum(counters[Len(counters)]) = Len(infected)

\* C2: simulate with R0 <= 0 is rejected before the index case is created:
\* no agent exists, no step runs and no count output is produced.
C2_NonPositiveR0Rejected ==
    (R0 <= 0) =>
        /\ pc \in {"start", "error"}
        /\ infected = <<>>
        /\ counters = <<>>
        /\ time = 0

\* C3: at the end of every time step every agent with an infector X has X in
\* the population and appears exactly once in X.infected, and the index case
\* is the only agent without an infector.
C3_InfectorLinks ==
    (pc = "while" /\ time >= 1) =>
        \A a \in Agents :
            LET x == infected[a].infector
            IN  /\ (x = None) <=> (a = 1)
                /\ (x # None) =>
                      /\ x \in Agents
                      /\ Occurrences(infected[x].infected, a) = 1

C3_Witness ==
    /\ pc = "while"
    /\ time >= 1
    /\ Len(infected) >= 3
    /\ infected[2].infector = 1
    /\ infected[3].infector = 2

Born(t) == {a \in Agents : infected[a].infection_time = t}

Before(t) == {a \in Agents : infected[a].infection_time < t}

\* C4: the population only grows by appending (its size never decreases and
\* the agents present keep their positions), and the number of agents added
\* during a step is at most the number present at the start of that step.
C4_AppendOnlyGrowth ==
    /\ [][/\ Len(infected') >= Len(infected)
          /\ \A a \in Agents :
                /\ infected'[a].infector = infected[a].infector
                /\ infected'[a].infection_time = infected[a].infection_time
                /\ infected'[a].end_times = infected[a].end_times]_vars
    /\ []((pc \in {"for", "while", "done"} /\ time >= 1) =>
             Cardinality(Born(time)) <= Cardinality(Before(time)))

C4_Witness ==
    /\ pc = "while"
    /\ time >= 2
    /\ Cardinality(Born(time)) = 1
    /\ Cardinality(Before(time)) = 1

\* C5: the state of an agent never regresses: its position in its trajectory
\* never moves backward and istatus never decreases from one update to the
\* next.
C5_StateNeverRegresses ==
    [][\A a \in Agents :
          /\ infected'[a].status_iter >= infected[a].status_iter
          /\ infected'[a].istatus >= infected[a].istatus]_vars

C5_Witness ==
    \E a \in Agents : infected[a].status_iter = 5 /\ infected[a].istatus = 7

\* C6 as stated: every trajectory has length exactly 4,
\* [latent, (1 | 2), symptoms, (recovering | dying)].
C6_TrajectoryLengthFour ==
    \A a \in Agents :
        LET traj == infected[a].status_trajectory
        IN  /\ Len(traj) = 4
            /\ traj[1] = 0
            /\ traj[2] \in {1, 2}
            /\ traj[3] = 3
            /\ traj[4] \in {4, 5}

\* C6 (amended): every trajectory, fixed at construction, has length exactly
\* 5: [latent, (symptoms-non-infectious | latent-infectious), symptoms,
\* (recovering, recovered | dying, dead)], containing exactly one of 1 and 2;
\* it is never modified after construction.
C6_TrajectoryLengthFive ==
    /\ [](\A a \in Agents :
            LET traj == infected[a].status_trajectory
            IN  /\ Len(traj) = 5
                /\ traj[1] = 0
                /\ traj[2] \in {1, 2}
                /\ traj[3] = 3
                /\ <<traj[4], traj[5]>> \in {<<4, 6>>, <<5, 7>>}
                /\ Occurrences(traj, 1) + Occurrences(traj, 2) = 1)
    /\ [][\A a \in Agents :
            infected'[a].status_trajectory = infected[a].status_trajectory]_vars

C6_Witness ==
    /\ Len(infected) >= 2
    /\ infected[1].status_trajectory[2] = 1
    /\ infected[2].status_trajectory[2] = 2
    /\ infected[1].status_iter > 1

\* C7: with recovery probability 1.0 no agent is ever in dying (5) or dead
\* (7), and with recovery probability 0.0 no agent is ever in recovering (4)
\* or recovered (6).
C7_TerminalBranch ==
    /\ (will_recover_p = 10) =>
          \A a \in Agents : infected[a].istatus \notin {5, 7}
    /\ (will_recover_p = 0) =>
          \A a \in Agents : infected[a].istatus \notin {4, 6}

C7_Witness ==
    /\ will_recover_p = 0
    /\ Len(infected) >= 2
    /\ infected[1].istatus = 7
    /\ infected[2].istatus = 3

\* C8: with n_iter = 0 simulate returns with the population being the index
\* case alone (infection_time 0, no infector) in state latent, never updated.
C8_ZeroHorizon ==
    (n_iter = 0 /\ pc \in {"done", "printed"}) =>
        /\ time = 0
        /\ Len(infected) = 1
        /\ infected[1].infection_time = 0
        /\ infected[1].infector = None
        /\ infected[1].istatus = 0
        /\ infected[1].status_iter = 1
        /\ infected[1].last_infection = 0
        /\ infected[1].infected = <<>>

C8_Witness == n_iter = 0 /\ pc = "done" /\ Len(infected) = 1

\* C10: for every count vector, n_observed sums exactly the states
\* {1,3,4,5,6,7}, n_latent exactly {0,2}, n_cases all 8 states, so that
\* n_observed + n_latent = n_cases; none of them changes the count vector.
C10_ReductionsPartition ==
    /\ []((pc = "printed") =>
            LET row == counters[Len(counters)]
                s == summary[1]
            IN  /\ s.reported = row[1] + row[3] + row[4] + row[5] + row[6] + row[7]
                /\ s.unreported = row[0] + row[2]
                /\ s.total = RowSum(row)
                /\ s.reported + s.unreported = s.total
                /\ s.row = row)
    /\ [][counters' = counters]_vars

C10_Witness ==
    /\ pc = "printed"
    /\ counters[1][0] = 1
    /\ counters[1][1] = 1
    /\ counters[1][2] = 0
    /\ summary[1].total >= 2

\* C11: in every time step every agent of the population receives exactly one
\* update call with the time of that step, in population order; an agent
\* appended during the step is visited later in the same pass.
C11_OneUpdatePerAgentPerStep ==
    /\ (pc = "for") =>
          updates = [k \in 1 .. (idx - 1) |-> <<k, time>>]
    /\ (pc \in {"while", "done"} /\ time >= 1) =>
          updates = [k \in 1 .. Len(infected) |-> <<k, time>>]

C11_Witness ==
    /\ pc = "while"
    /\ \E a \in Agents :
          /\ infected[a].infection_time = time
          /\ a <= Len(updates)
          /\ updates[a] = <<a, time>>

\* C12: an agent never produces a new infection in the update call of the
\* step in which it was created, so the infection_time of every agent is
\* strictly greater than that of its infector.
C12_NoTransmissionAtCreation ==
    /\ [][(pc = "for" /\ pc' = "for" /\ infected[idx].infection_time = time) =>
            /\ Len(infected') = Len(infected)
            /\ infected'[idx].infected = <<>>
            /\ infected'[idx].last_infection = time]_vars
    /\ [](\A a \in Agents :
            (infected[a].infector # None) =>
               infected[a].infection_time >
                  infected[infected[a].infector].infection_time)

C12_Witness ==
    /\ pc = "while"
    /\ R0 > 0
    /\ Len(infected) = 3
    /\ infected[3].infector = 2
    /\ infected[2].infection_time < infected[3].infection_time
    /\ Len(updates) = 3

\* C13: in every update call at time t, if after the advance of that call the
\* agent can infect and t - last_infection > infect_delta, exactly one agent
\* is created with infector = self and infection_time = t, appended to
\* self.infected and to the population, and last_infection becomes t;
\* otherwise no agent is created and last_infection and self.infected are
\* unchanged.  Successive transmissions of an agent are more than
\* infect_delta apart.
C13_TransmissionRule ==
    /\ [][(pc = "for" /\ pc' = "for") =>
            LET old == infected[idx]
                post == infected'[idx]
                n == Len(infected)
                due == /\ post.istatus \in {2, 3}
                       /\ (time - old.last_infection) * 100 > infect_delta
            IN  IF due
                THEN /\ Len(infected') = n + 1
                     /\ infected'[n + 1].infector = idx
                     /\ infected'[n + 1].infection_time = time
                     /\ post.infected = Append(old.infected, n + 1)
                     /\ post.last_infection = time
                ELSE /\ Len(infected') = n
                     /\ post.infected = old.infected
                     /\ post.last_infection = old.last_infection]_vars
    /\ [](\A a \in Agents :
            \A k \in 1 .. (Len(infected[a].infected) - 1) :
               (infected[infected[a].infected[k + 1]].infection_time
                  - infected[infected[a].infected[k]].infection_time) * 100
               > infect_delta)

\* with infect_delta = 1.0 the index case has transmitted at the previous
\* step, is still infectious after this step's update and creates nothing
C13_Witness ==
    /\ R0 = 50
    /\ pc = "for"
    /\ idx = 2
    /\ infected[1].istatus = 3
    /\ infected[1].infected = <<2>>
    /\ infected[1].last_infection = time - 1
    /\ infected[2].infection_time = time - 1

\* C14: every new infection is created by an agent whose state after the
\* advance of that step is latent-infectious (2) or symptoms (3); an agent in
\* any other state creates no agent, so an agent that has left symptoms does
\* not transmit at that step or later.
C14_OnlyInfectiousTransmit ==
    [][(pc = "for") =>
         /\ (Len(infected') > Len(infected)) =>
               /\ infected'[idx].istatus \in {2, 3}
               /\ infected'[Len(infected')].infector = idx
         /\ \A a \in Agents :
               (infected'[a].istatus \in {0, 1, 4, 5, 6, 7}) =>
                   infected'[a].infected = infected[a].infected]_vars

C14_Witness ==
    /\ pc = "for"
    /\ idx = 2
    /\ time >= 4
    /\ infected[1].istatus \in {4, 5}
    /\ Len(infected[1].infected) = 1
    /\ infected[2].istatus = 1

\* C15: an update call at time t moves the cursor forward by exactly one
\* trajectory position if t >= the transition time of the state held on
\* entry, and by none otherwise; never by two or more, even when the
\* transition times of several successive states have passed.
C15_SingleAdvancePerCall ==
    [][(pc = "for" /\ pc' = "for") =>
         LET old == infected[idx]
             post == infected'[idx]
             e == old.end_times[old.istatus]
             reached == e # NaN /\ time * 100 >= e
         IN  /\ post.status_iter = old.status_iter + (IF reached THEN 1 ELSE 0)
             /\ post.istatus = old.status_trajectory[post.status_iter]]_vars

C15_Witness ==
    /\ pc = "while"
    /\ \E a \in Agents :
          LET traj == infected[a].status_trajectory
          IN  /\ infected[a].status_iter = 2
              /\ infected[a].infection_time = time - 1
              /\ infected[a].end_times[traj[2]] <= time * 100
              /\ infected[a].end_times[traj[3]] <= time * 100

\* C16 as stated: an agent is never behind its schedule: after every update
\* at time t its state is final or has a transition time greater than t.
C16_NeverBehindSchedule ==
    (pc = "while" /\ time >= 1) =>
        \A a \in Agents :
            \/ infected[a].status_iter = Len(infected[a].status_trajectory)
            \/ infected[a].end_times[infected[a].istatus] > time * 100

\* C16 (amended): for every agent and every non-final state s of its
\* trajectory, an update call at time t >= transition_times[s] that the agent
\* enters in s leaves it in the successor of s; the state it then holds may
\* itself have a transition time <= t, which the same call does not act on.
C16_LeavesStateWhenDue ==
    [][(pc = "for" /\ pc' = "for") =>
         LET old == infected[idx]
             post == infected'[idx]
             k == old.status_iter
         IN  (k < Len(old.status_trajectory)
              /\ time * 100 >= old.end_times[old.status_trajectory[k]]) =>
                 /\ post.istatus # old.istatus
                 /\ post.istatus = old.status_trajectory[k + 1]]_vars

C16_Witness ==
    /\ pc = "for"
    /\ idx = 2
    /\ time = 2
    /\ infected[1].status_iter = 3
    /\ infected[1].istatus = 3
    /\ infected[1].end_times[3] < time * 100

\* C17: once the cursor of an agent is on the last entry of its trajectory
\* no later update changes its state, and no update call advances past the
\* last entry (the iterator is never exhausted).
C17_FinalStateAbsorbing ==
    /\ [][\A a \in Agents :
            (infected[a].status_iter = Len(infected[a].status_trajectory)) =>
                /\ infected'[a].status_iter = infected[a].status_iter
                /\ infected'[a].istatus = infected[a].istatus]_vars
    /\ [][(pc = "for") => (pc' # "error")]_vars
    /\ [](\A a \in Agents :
            infected[a].status_iter <= Len(infected[a].status_trajectory))

C17_Witness ==
    /\ pc = "while"
    /\ time = 5
    /\ infected[1].status_iter = 5
    /\ infected[1].istatus \in {6, 7}
    /\ infected[1].end_times[infected[1].status_trajectory[4]] <= 400
    /\ updates[1] = <<1, 5>>

\* C18: for every horizon n_iter >= 0 and every R0 > 0 each pass over the
\* growing population terminates, and simulate performs exactly n_iter time
\* steps, time taking the values 1 .. n_iter in order, and then returns.
C18_Terminates ==
    /\ [][\/ time' = time
          \/ (pc = "while" /\ time < n_iter /\ time' = time + 1)]_vars
    /\ [](pc = "done" => time = n_iter)
    /\ <>(pc = "done" \/ PopulationCapped)

C18_Witness ==
    /\ pc = "done"
    /\ R0 > 0
    /\ n_iter = 5
    /\ time = 5
    /\ Len(infected) = 3
    /\ Len(updates) = 3

\* C19: for every agent the transition times of the states along its
\* trajectory are non-decreasing in trajectory order, in both branches, and
\* all of them are >= its infection_time.
C19_EndTimesNonDecreasing ==
    \A a \in Agents :
        LET traj == infected[a].status_trajectory
            e == infected[a].end_times
        IN  /\ e[traj[1]] >= infected[a].infection_time * 100
            /\ \A k \in 1 .. 3 : e[traj[k]] <= e[traj[k + 1]]

Tally == [s \in States |-> Cardinality({a \in Agents : infected[a].istatus = s})]

\* C20: for every output step t (a multiple of output_freq), row
\* t / output_freq - 1 of the count matrix tallies every agent that is in the
\* population at the end of step t exactly once, in the state it holds after
\* its update at t, agents created during step t included; the row sums to
\* the population size at the end of step t, and no row receives counts from
\* another step.
C20_RowsTallyOutputSteps ==
    /\ []((pc = "while" /\ time >= 1 /\ time % output_freq = 0) =>
             counters[time \div output_freq] = Tally)
    /\ [](\A r \in 1 .. Len(counters) :
            /\ (r * output_freq > time) => (counters[r] = ZeroRow)
            /\ (r * output_freq < time
                \/ (r * output_freq = time /\ pc \in {"while", "done", "printed"})) =>
                  RowSum(counters[r]) =
                     Cardinality({a \in Agents :
                                    infected[a].infection_time <= r * output_freq}))
    /\ [][\A r \in 1 .. Len(counters) :
            (counters'[r] # counters[r]) =>
                (pc = "for" /\ time = r * output_freq)]_vars

C20_Witness ==
    /\ pc = "while"
    /\ output_freq = 2
    /\ time = 4
    /\ RowSum(counters[1]) = 2
    /\ RowSum(counters[2]) = 3
    /\ infected[3].infection_time = 4
    /\ counters[2][0] >= 1

====
